---------------------------- MODULE Spec2Model ----------------------------
(***************************************************************************)
(* Model of the yield-curve demonstration program: YieldCurveBuilder       *)
(* (YieldCurveBuilder.h) and main (main.cpp), both in src/unnamed/part_000.*)
(*                                                                         *)
(* The program delegates dates, calendars, day counts and interpolation to *)
(* QuantLib.  Each library call of the source is modelled by what that     *)
(* call does (the operators below name the call site they stand for).      *)
(*                                                                         *)
(* Number domains.  A Date is its QuantLib serial number (days since       *)
(* 30 Dec 1899).  A Time is kept as a whole number of days: the day        *)
(* counter is Actual365Fixed, so the time in years is days/365 and every   *)
(* ratio of times is a ratio of days.  A Rate is kept in units of 1e-4     *)
(* (0.0300 is 300).  A computed rate is the exact rational                 *)
(* whole + num/den, den > 0: the model works in exact arithmetic where the *)
(* library works in double precision.                                      *)
(***************************************************************************)
EXTENDS Integers, Sequences, FiniteSets, TLC

VARIABLES
    pc,                \* position of main / YieldCurveBuilder in its code
    evalDate,          \* main's evalDate, the constructor's argument
    settingsEvalDate,  \* Settings::instance().evaluationDate(), process-wide
    evaluationDate_,   \* YieldCurveBuilder::evaluationDate_
    dates_,            \* YieldCurveBuilder::dates_
    rates_,            \* YieldCurveBuilder::rates_
    linearCurve,       \* the curve behind linearCurveHandle
    cubicCurve,        \* the curve behind cubicSplineCurveHandle
    idx,               \* index of the current element of testPeriods
    targetDate,        \* performAnalysis: targetDate
    t,                 \* performAnalysis: t
    linearRate,        \* performAnalysis: linearRate
    cubicRate,         \* performAnalysis: cubicRate
    out,               \* lines written to std::cout
    err,               \* lines written to std::cerr
    exc,               \* the exception in flight, NoExc when none
    exitCode,          \* main's return value, -1 while running
    failed,            \* history: an exception was raised in this run
    uPc,               \* curve harness: position
    uDates,            \* curve harness: the dates given to the curve
    uRates,            \* curve harness: the rates given to the curve
    uCurve,            \* curve harness: the curve built
    uT,                \* curve harness: the time queried
    uRes               \* curve harness: the outcome of the last call

vars == << pc, evalDate, settingsEvalDate, evaluationDate_, dates_, rates_,
           linearCurve, cubicCurve, idx, targetDate, t, linearRate, cubicRate,
           out, err, exc, exitCode, failed,
           uPc, uDates, uRates, uCurve, uT, uRes >>

progVars == << pc, evalDate, settingsEvalDate, evaluationDate_, dates_, rates_,
               linearCurve, cubicCurve, idx, targetDate, t, linearRate,
               cubicRate, out, err, exc, exitCode, failed >>

harnessVars == << uPc, uDates, uRates, uCurve, uT, uRes >>

-----------------------------------------------------------------------------
(* QuantLib::Date: serial numbers, civil dates, weekdays.                    *)

MinSerial == 367        \* Date::minDate(), 1 January 1901
MaxSerial == 109574     \* Date::maxDate(), 31 December 2199
NullDate == 0           \* Date(), the null date

\* Date::isLeap.
IsLeap(y) == (y % 4 = 0 /\ y % 100 # 0) \/ y % 400 = 0

\* Date::monthLength.
MonthLength(m, y) ==
    IF m = 2 THEN (IF IsLeap(y) THEN 29 ELSE 28)
    ELSE IF m \in {4, 6, 9, 11} THEN 30 ELSE 31

\* Date(d, m, y).serialNumber(): days from 30 December 1899.
Serial(y, m, d) ==
    LET yy  == IF m <= 2 THEN y - 1 ELSE y
        era == yy \div 400
        yoe == yy - era * 400
        mp  == IF m > 2 THEN m - 3 ELSE m + 9
        doy == (153 * mp + 2) \div 5 + d - 1
        doe == yoe * 365 + yoe \div 4 - yoe \div 100 + doy
    IN  era * 146097 + doe - 719468 + 25569

\* Date::year(), Date::month(), Date::dayOfMonth() of a serial number.
Civil(s) ==
    LET z   == s - 25569 + 719468
        era == z \div 146097
        doe == z - era * 146097
        yoe == (doe - doe \div 1460 + doe \div 36524 - doe \div 146096) \div 365
        doy == doe - (365 * yoe + yoe \div 4 - yoe \div 100)
        mp  == (5 * doy + 2) \div 153
        d   == doy - (153 * mp + 2) \div 5 + 1
        m   == IF mp < 10 THEN mp + 3 ELSE mp - 9
        y   == yoe + era * 400 + (IF m <= 2 THEN 1 ELSE 0)
    IN  [y |-> y, m |-> m, d |-> d]

\* Date::weekday(): Sunday = 1, ..., Saturday = 7.
Weekday(s) == IF s % 7 = 0 THEN 7 ELSE s % 7

\* Date::dayOfYear().
DayOfYear(s) == s - Serial(Civil(s).y, 1, 1) + 1

\* Easter Sunday of year y (the Gregorian computus), from its epact h and
\* weekday offset l, as a serial number.
EasterSunday(y, h, l) ==
    LET m == ((y % 19) + 11 * h + 22 * l) \div 451
        k == h + l - 7 * m + 114
    IN  Serial(y, k \div 31, (k % 31) + 1)

EasterOffset(y, h) ==
    (32 + 2 * ((y \div 100) % 4) + 2 * ((y % 100) \div 4) - h - ((y % 100) % 4)) % 7

EasterEpact(y) ==
    LET b == y \div 100
    IN  (19 * (y % 19) + b - b \div 4 - (b - (b + 8) \div 25 + 1) \div 3 + 15) % 30

EasterWithEpact(y, h) == EasterSunday(y, h, EasterOffset(y, h))

\* TARGET's easterMonday(y): the day of the year of Easter Monday (the
\* library keeps these in a table).
EasterMonday(y) == EasterWithEpact(y, EasterEpact(y)) + 1 - Serial(y, 1, 1) + 1

\* TARGET::Impl::isBusinessDay, on the date's weekday w, civil date c, day
\* of the year dd and the year's Easter Monday em.
TargetBusinessDay(w, c, dd, em) ==
    ~ ( \/ w = 7 \/ w = 1
        \/ (c.d = 1 /\ c.m = 1)
        \/ (dd = em - 3 /\ c.y >= 2000)
        \/ (dd = em /\ c.y >= 2000)
        \/ (c.d = 1 /\ c.m = 5 /\ c.y >= 2000)
        \/ (c.d = 25 /\ c.m = 12)
        \/ (c.d = 26 /\ c.m = 12 /\ c.y >= 2000)
        \/ (c.d = 31 /\ c.m = 12 /\ c.y \in {1998, 1999, 2001}) )

IsBusinessDayOn(s, c) ==
    TargetBusinessDay(Weekday(s), c, s - Serial(c.y, 1, 1) + 1, EasterMonday(c.y))

\* Calendar::isBusinessDay(d) of the TARGET calendar.
IsBusinessDay(s) == IsBusinessDayOn(s, Civil(s))

NoExc == "none"
DateError == "date out of bounds"

\* A library call's outcome: a value, or the exception it throws.
Ok(v) == [raised |-> NoExc, value |-> v]
Raise(msg) == [raised |-> msg, value |-> 0]

\* Date(d, m, y) for the day-of-month d cut to the month's length; a year
\* outside [1901,2199] throws.
DateInMonth(y, m, d) ==
    IF y < 1901 \/ y > 2199 THEN Raise(DateError)
    ELSE IF d > MonthLength(m, y) THEN Ok(Serial(y, m, MonthLength(m, y)))
    ELSE Ok(Serial(y, m, d))

\* Date::advance on the civil date c: c + n*Months, c + n*Years.  The day
\* of the month is kept, cut to the month's length.
CivilPlus(c, n, unit) ==
    IF unit = "Months"
    THEN DateInMonth(c.y + (c.m + n - 1) \div 12, ((c.m + n - 1) % 12) + 1, c.d)
    ELSE DateInMonth(c.y + n, c.m, c.d)

\* Date + n*unit.
DatePlus(s, n, unit) == CivilPlus(Civil(s), n, unit)

\* Calendar::adjust(d, Following): the first business day from d on;
\* stepping past Date::maxDate() throws.
RECURSIVE Adjust(_)
Adjust(s) ==
    IF s > MaxSerial THEN Raise(DateError)
    ELSE IF IsBusinessDay(s) THEN Ok(s)
    ELSE Adjust(s + 1)

AdjustOutcome(d1) == IF d1.raised # NoExc THEN d1 ELSE Adjust(d1.value)

\* Calendar::advance(d, n, unit) with the default convention Following and
\* endOfMonth = false, for n > 0 and unit Months or Years:
\* adjust(d + n*unit).
Advance(s, n, unit) == AdjustOutcome(DatePlus(s, n, unit))

\* Actual365Fixed::yearFraction(d1, d2), in days: the time is DayCount/365.
DayCount(d1, d2) == d2 - d1


-----------------------------------------------------------------------------
(* QuantLib::InterpolatedZeroCurve<Linear> and <Cubic>, as the program uses  *)
(* them: built from dates and rates, queried through                         *)
(* YieldTermStructure::zeroRate(Time, Continuous).                           *)

NoCurve == [method |-> "none", dates |-> << >>, times |-> << >>,
            data |-> << >>, extrapolate |-> FALSE]

\* A variant that asks three points of every interpolation.
RequiredPointsThree(method) == 3

\* Linear::requiredPoints and Cubic::requiredPoints.
RequiredPoints(method) == 2

\* The curve's knot times, in days.  The curve's reference date is the first
\* of the dates it is given (ZeroYieldStructure(dates.at(0), ...)), and
\* times[i] = dayCounter.yearFraction(dates[0], dates[i]): the first knot is
\* at time 0 whatever the evaluation date is.
CurveTimes(dates) == [i \in 1..Len(dates) |-> DayCount(dates[1], dates[i])]

\* InterpolatedZeroCurve(dates, yields, dayCounter, calendar, interpolator):
\* the curve, or the exception the constructor throws.  A new curve does not
\* extrapolate.
BuildCurve(dates, yields, method) ==
    IF Len(dates) = 0 THEN Raise("vector::at out of range")
    ELSE IF Len(dates) < RequiredPoints(method)
        THEN Raise("not enough input dates given")
    ELSE IF Len(yields) # Len(dates) THEN Raise("dates/data count mismatch")
    ELSE IF \E i \in 2..Len(dates) : ~ (dates[i] > dates[i-1])
        THEN Raise("invalid date")
    ELSE Ok([method |-> method, dates |-> dates, times |-> CurveTimes(dates),
             data |-> yields, extrapolate |-> FALSE])

\* A variant of enableExtrapolation that leaves the curve as it is.
EnableExtrapolationNoop(curve) == curve

\* TermStructure::enableExtrapolation().
EnableExtrapolation(curve) == [curve EXCEPT !.extrapolate = TRUE]

\* TermStructure::maxTime(): the time of the last date.
MaxTime(curve) == curve.times[Len(curve.times)]

\* A variant of locate that does not search: always the first segment.
LocateFirst(times, xn, xd) == 1

\* Interpolation::templateImpl::locate(x), 1-based: the segment [x_j, x_j+1]
\* used for x; the first one below the range, the last one above it.
Locate(times, xn, xd) ==
    LET n == Len(times)
    IN  IF xn < times[1] * xd THEN 1
        ELSE IF xn > times[n] * xd THEN n - 1
        ELSE CHOOSE j \in 1..(n-1) :
                /\ times[j] * xd <= xn
                /\ (j = n - 1 \/ xn < times[j+1] * xd)

\* YieldTermStructure's dt = 0.0001 years, in days: 0.0365 = 73/2000.
DtNum == 73
DtDen == 2000

\* YieldTermStructure::zeroRate(t, Continuous) down to the point where the
\* interpolation is evaluated, for t = tq days:
\*   if (t == 0.0) t = dt;
\*   checkRange(t, false): t < 0 throws; t > maxTime() throws unless the
\*     curve allows extrapolation;
\*   zeroYieldImpl(t): t <= times.back() evaluates the interpolation at t,
\*     anything later is the flat-forward extrapolation from the last knot.
\* The outcome is the exception, or where the curve is evaluated: at
\* x = xn/xd days on segment seg.
ZeroRate(curve, tq) ==
    LET xn == IF tq = 0 THEN DtNum ELSE tq
        xd == IF tq = 0 THEN DtDen ELSE 1
    IN  IF xn < 0 THEN Raise("negative time given")
        ELSE IF ~ curve.extrapolate /\ xn > MaxTime(curve) * xd
            THEN Raise("time past max time")
        ELSE IF xn <= MaxTime(curve) * xd
            THEN Ok([mode |-> "interp", seg |-> Locate(curve.times, xn, xd),
                     xn |-> xn, xd |-> xd])
        ELSE Ok([mode |-> "flatfwd", seg |-> Len(curve.times) - 1,
                 xn |-> xn, xd |-> xd])

\* A variant of the Linear value whose slope is the rise over the distance
\* from the origin to the segment's end instead of over the segment's length.
LinearValueFromOrigin(curve, ev) ==
    LET j  == ev.seg
        dy == curve.data[j+1] - curve.data[j]
    IN  [whole |-> curve.data[j],
         num |-> dy * (ev.xn - curve.times[j] * ev.xd),
         den |-> (curve.times[j+1] + 1) * ev.xd]

\* The zero rate of a Linear curve at a located evaluation, in exact
\* arithmetic, as whole + num/den.
\*   interp:  LinearInterpolation value, y_j + (x - x_j) * s_j with
\*            s_j = (y_j+1 - y_j) / (x_j+1 - x_j);
\*   flatfwd: (zMax*tMax + instFwdMax*(t - tMax)) / t with
\*            instFwdMax = zMax + tMax * s_last, which is
\*            zMax + s_last * tMax * (t - tMax) / t.
\* The discount factor exp(-r*t) and the implied rate log(1/df)/t cancel.
LinearValue(curve, ev) ==
    LET j  == ev.seg
        dy == curve.data[j+1] - curve.data[j]
        dx == curve.times[j+1] - curve.times[j]
    IN  IF ev.mode = "interp"
        THEN [whole |-> curve.data[j],
              num |-> dy * (ev.xn - curve.times[j] * ev.xd),
              den |-> dx * ev.xd]
        ELSE [whole |-> curve.data[j+1],
              num |-> dy * MaxTime(curve) * (ev.xn - MaxTime(curve) * ev.xd),
              den |-> dx * ev.xn]


\* Exact rationals [n, d] with d > 0, in lowest terms: the numbers the
\* Cubic interpolation computes with (doubles in the library).
RECURSIVE Gcd(_, _)
Gcd(a, b) == IF b = 0 THEN a ELSE Gcd(b, a % b)

Abs(x) == IF x < 0 THEN -x ELSE x

RatReduce(n, d, g) ==
    IF d < 0 THEN [n |-> (-n) \div g, d |-> (-d) \div g]
    ELSE [n |-> n \div g, d |-> d \div g]

Rat(n, d) == RatReduce(n, d, Gcd(Abs(n), Abs(d)))
RInt(k) == [n |-> k, d |-> 1]
RAdd(p, q) == Rat(p.n * q.d + q.n * p.d, p.d * q.d)
RSub(p, q) == Rat(p.n * q.d - q.n * p.d, p.d * q.d)
RMul(p, q) == Rat(p.n * q.n, p.d * q.d)
RDiv(p, q) == Rat(p.n * q.d, p.d * q.n)

\* CubicInterpolationImpl::update(): dx_[i] and S_[i] of segment i.
SegDx(curve, i) == curve.times[i+1] - curve.times[i]
SegSlope(curve, i) == Rat(curve.data[i+1] - curve.data[i], SegDx(curve, i))

\* The Kruger approximation of the first derivative at an interior knot,
\* from the slopes s1 and s2 of the segments on its two sides:
\*   if (S_[i-1]*S_[i] < 0.0) tmp_[i] = 0.0;
\*   else tmp_[i] = 2.0/(1.0/S_[i-1] + 1.0/S_[i]);
\* a zero slope makes the quotient 2.0/inf = 0.
KrugerInterior(s1, s2) ==
    IF s1.n * s2.n <= 0 THEN RInt(0)
    ELSE RDiv(RInt(2), RAdd(RDiv(RInt(1), s1), RDiv(RInt(1), s2)))

\* The Kruger end point: tmp_[0] = (3.0*S_[0] - tmp_[1])/2.0, and the
\* same at the other end.
KrugerEnd(s, inner) == RDiv(RSub(RMul(RInt(3), s), inner), RInt(2))

\* Cubic() is Cubic(CubicInterpolation::Kruger, false, SecondDerivative, 0.0,
\* SecondDerivative, 0.0): the first derivative tmp_[i] at knot i (1-based)
\* is Kruger's local approximation; with two points both are the slope.
FirstDerivative(curve, i) ==
    LET n == Len(curve.times)
    IN  IF n = 2 THEN SegSlope(curve, 1)
        ELSE IF i = 1
            THEN KrugerEnd(SegSlope(curve, 1),
                           KrugerInterior(SegSlope(curve, 1), SegSlope(curve, 2)))
        ELSE IF i = n
            THEN KrugerEnd(SegSlope(curve, n-1),
                           KrugerInterior(SegSlope(curve, n-2), SegSlope(curve, n-1)))
        ELSE KrugerInterior(SegSlope(curve, i-1), SegSlope(curve, i))

\* The coefficients of segment i from its slope s, its length h and the
\* first derivatives d0, d1 at its ends:
\*   a_[i] = tmp_[i];
\*   b_[i] = (3.0*S_[i] - tmp_[i+1] - 2.0*tmp_[i])/dx_[i];
\*   c_[i] = (tmp_[i+1] + tmp_[i] - 2.0*S_[i])/(dx_[i]*dx_[i]);
CoefB(s, h, d0, d1) ==
    RDiv(RSub(RSub(RMul(RInt(3), s), d1), RMul(RInt(2), d0)), RInt(h))
CoefC(s, h, d0, d1) ==
    RDiv(RSub(RAdd(d1, d0), RMul(RInt(2), s)), RInt(h * h))

SegA(curve, i) == FirstDerivative(curve, i)
SegB(curve, i) ==
    CoefB(SegSlope(curve, i), SegDx(curve, i),
          FirstDerivative(curve, i), FirstDerivative(curve, i+1))
SegC(curve, i) ==
    CoefC(SegSlope(curve, i), SegDx(curve, i),
          FirstDerivative(curve, i), FirstDerivative(curve, i+1))

\* CubicInterpolationImpl::value, derivative and secondDerivative on
\* segment j at distance dx from its first knot.
PolyValue(y, a, b, c, dx) ==
    RAdd(RInt(y), RMul(dx, RAdd(a, RMul(dx, RAdd(b, RMul(dx, c))))))
PolyDerivative(a, b, c, dx) ==
    RAdd(a, RMul(RAdd(RMul(RInt(2), b), RMul(RMul(RInt(3), c), dx)), dx))
PolySecondDerivative(b, c, dx) ==
    RAdd(RMul(RInt(2), b), RMul(RMul(RInt(6), c), dx))

CubicInterp(curve, j, dx) ==
    PolyValue(curve.data[j], SegA(curve, j), SegB(curve, j), SegC(curve, j), dx)
CubicDerivative(curve, j, dx) ==
    PolyDerivative(SegA(curve, j), SegB(curve, j), SegC(curve, j), dx)
SecondDerivative(curve, j, dx) ==
    PolySecondDerivative(SegB(curve, j), SegC(curve, j), dx)

\* zeroYieldImpl past the last knot, from the last rate zMax, the last time
\* tMax, the interpolation's derivative there and the time tt:
\*   instFwdMax = zMax + tMax * derivative(tMax);
\*   (zMax*tMax + instFwdMax*(t - tMax)) / t.
FlatForward(zMax, tMax, deriv, tt) ==
    RDiv(RAdd(RMul(zMax, tMax),
              RMul(RAdd(zMax, RMul(tMax, deriv)), RSub(tt, tMax))),
         tt)

\* The zero rate of a Cubic curve at a located evaluation, as 0 + num/den.
\* (Exact arithmetic needs more than 32 bits on market dates and at dt; the
\* operator is for short curves at whole days.)
CubicRat(curve, ev) ==
    IF ev.mode = "interp"
    THEN CubicInterp(curve, ev.seg,
                     Rat(ev.xn - curve.times[ev.seg] * ev.xd, ev.xd))
    ELSE FlatForward(RInt(curve.data[ev.seg + 1]), RInt(MaxTime(curve)),
                     CubicDerivative(curve, ev.seg, RInt(SegDx(curve, ev.seg))),
                     Rat(ev.xn, ev.xd))

AsValue(q) == [whole |-> 0, num |-> q.n, den |-> q.d]

CubicValue(curve, ev) == AsValue(CubicRat(curve, ev))

-----------------------------------------------------------------------------
(* The program: main, YieldCurveBuilder.                                     *)

\* main: QuantLib::Date evalDate(24, QuantLib::August, 2025).
CompiledEvalY == 2025
CompiledEvalM == 8
CompiledEvalD == 24

\* The evaluation dates the builder is constructed for: the compiled-in one
\* first, then others a caller of YieldCurveBuilder(const Date&) can pass.
EvalDateList ==
    << Serial(CompiledEvalY, CompiledEvalM, CompiledEvalD),
       Serial(2165, 1, 2),     \* 40 years later is past Date::maxDate()
       Serial(2024, 2, 29),    \* a leap day
       Serial(2175, 7, 1),     \* 30 years later is past Date::maxDate()
       Serial(2024, 8, 31),    \* six months later is cut to 28 February
       Serial(2025, 10, 3),    \* six months later is Good Friday 2026
       Serial(2159, 12, 30),   \* the last years in which everything fits
       Serial(2199, 6, 30) >>  \* one year later is past Date::maxDate()

NumEvalDates == 6

EvalDates == { EvalDateList[i] : i \in 1..NumEvalDates }

\* setupMarketData: the six quotes, in the order they are pushed.
Quotes ==
    << [n |-> 6,  unit |-> "Months", rate |-> 300],
       [n |-> 1,  unit |-> "Years",  rate |-> 350],
       [n |-> 2,  unit |-> "Years",  rate |-> 375],
       [n |-> 5,  unit |-> "Years",  rate |-> 400],
       [n |-> 10, unit |-> "Years",  rate |-> 425],
       [n |-> 30, unit |-> "Years",  rate |-> 450] >>

\* performAnalysis: testPeriods.
TestPeriods ==
    << [n |-> 3,  unit |-> "Months"],
       [n |-> 7,  unit |-> "Years"],
       [n |-> 40, unit |-> "Years"] >>

NoValue == [whole |-> 0, num |-> 0, den |-> 1]
NoEval == [mode |-> "none", seg |-> 0, xn |-> 0, xd |-> 1]

\* The lines the program writes.
EvalDateLine(d) == [kind |-> "evaluation date", date |-> d]
SeparatorLine == [kind |-> "separator"]
HeaderLine == [kind |-> "header"]
RowLine(period, lin, cub) ==
    [kind |-> "row", period |-> period, linear |-> lin, cubic |-> cub]
ErrorLine(what) ==
    IF what = "unknown"
    THEN [kind |-> "error", text |-> "An unknown error occurred."]
    ELSE [kind |-> "error", text |-> "An error occurred: ", what |-> what]

\* An exception leaves the try block of main for its handlers.
Throw(msg) ==
    /\ exc' = msg
    /\ failed' = TRUE
    /\ pc' = "catch"

ProgInit ==
    /\ pc = "main"
    /\ evalDate = NullDate
    /\ settingsEvalDate = NullDate
    /\ evaluationDate_ = NullDate
    /\ dates_ = << >>
    /\ rates_ = << >>
    /\ linearCurve = NoCurve
    /\ cubicCurve = NoCurve
    /\ idx = 0
    /\ targetDate = NullDate
    /\ t = 0
    /\ linearRate = NoValue
    /\ cubicRate = NoEval
    /\ out = << >>
    /\ err = << >>
    /\ exc = NoExc
    /\ exitCode = -1
    /\ failed = FALSE

\* main: the evaluation date is defined.
Main ==
    /\ pc = "main"
    /\ \E d \in EvalDates : evalDate' = d
    /\ pc' = "ctor"
    /\ UNCHANGED << settingsEvalDate, evaluationDate_, dates_, rates_,
                    linearCurve, cubicCurve, idx, targetDate, t, linearRate,
                    cubicRate, out, err, exc, exitCode, failed >>

\* A variant of the constructor that keeps the evaluation date to itself.
ConstructorLocalOnly ==
    /\ pc = "ctor"
    /\ evaluationDate_' = evalDate
    /\ pc' = "setup"
    /\ UNCHANGED << evalDate, settingsEvalDate, dates_, rates_, linearCurve,
                    cubicCurve, idx, targetDate, t, linearRate, cubicRate,
                    out, err, exc, exitCode, failed >>

\* YieldCurveBuilder(evaluationDate): the members are initialised and the
\* global evaluation date is set.
Constructor ==
    /\ pc = "ctor"
    /\ evaluationDate_' = evalDate
    /\ settingsEvalDate' = evalDate
    /\ pc' = "setup"
    /\ UNCHANGED << evalDate, dates_, rates_, linearCurve, cubicCurve, idx,
                    targetDate, t, linearRate, cubicRate, out, err, exc,
                    exitCode, failed >>

\* setupMarketData: the next quote's date and rate are pushed; after the
\* sixth the constructor returns and main calls runAnalysis.
SetupMarketData ==
    /\ pc = "setup"
    /\ LET q == Quotes[Len(dates_) + 1]
           a == Advance(evaluationDate_, q.n, q.unit)
       IN  IF a.raised # NoExc
           THEN /\ Throw(a.raised)
                /\ UNCHANGED << dates_, rates_ >>
           ELSE /\ dates_' = Append(dates_, a.value)
                /\ rates_' = Append(rates_, q.rate)
                /\ pc' = IF Len(dates_) + 1 = Len(Quotes)
                         THEN "run_banner" ELSE "setup"
                /\ UNCHANGED << exc, failed >>
    /\ UNCHANGED << evalDate, settingsEvalDate, evaluationDate_, linearCurve,
                    cubicCurve, idx, targetDate, t, linearRate, cubicRate,
                    out, err, exitCode >>

\* runAnalysis: the evaluation-date line and the separator are written.
RunBanner ==
    /\ pc = "run_banner"
    /\ out' = out \o << EvalDateLine(evaluationDate_), SeparatorLine >>
    /\ pc' = "build_linear"
    /\ UNCHANGED << evalDate, settingsEvalDate, evaluationDate_, dates_,
                    rates_, linearCurve, cubicCurve, idx, targetDate, t,
                    linearRate, cubicRate, err, exc, exitCode, failed >>

\* runAnalysis: 1. the Linear curve is built.
BuildLinear ==
    /\ pc = "build_linear"
    /\ LET c == BuildCurve(dates_, rates_, "Linear")
       IN  IF c.raised # NoExc
           THEN /\ Throw(c.raised)
                /\ UNCHANGED linearCurve
           ELSE /\ linearCurve' = c.value
                /\ pc' = "build_cubic"
                /\ UNCHANGED << exc, failed >>
    /\ UNCHANGED << evalDate, settingsEvalDate, evaluationDate_, dates_,
                    rates_, cubicCurve, idx, targetDate, t, linearRate,
                    cubicRate, out, err, exitCode >>

\* runAnalysis: 2. the Cubic curve is built.
BuildCubic ==
    /\ pc = "build_cubic"
    /\ LET c == BuildCurve(dates_, rates_, "Cubic")
       IN  IF c.raised # NoExc
           THEN /\ Throw(c.raised)
                /\ UNCHANGED cubicCurve
           ELSE /\ cubicCurve' = c.value
                /\ pc' = "enable_linear"
                /\ UNCHANGED << exc, failed >>
    /\ UNCHANGED << evalDate, settingsEvalDate, evaluationDate_, dates_,
                    rates_, linearCurve, idx, targetDate, t, linearRate,
                    cubicRate, out, err, exitCode >>

\* runAnalysis: 3. extrapolation is enabled on the Linear curve.
EnableLinear ==
    /\ pc = "enable_linear"
    /\ linearCurve' = EnableExtrapolation(linearCurve)
    /\ pc' = "enable_cubic"
    /\ UNCHANGED << evalDate, settingsEvalDate, evaluationDate_, dates_,
                    rates_, cubicCurve, idx, targetDate, t, linearRate,
                    cubicRate, out, err, exc, exitCode, failed >>

\* runAnalysis: 3. extrapolation is enabled on the Cubic curve; then
\* performAnalysis is called.
EnableCubic ==
    /\ pc = "enable_cubic"
    /\ cubicCurve' = EnableExtrapolation(cubicCurve)
    /\ pc' = "table_header"
    /\ UNCHANGED << evalDate, settingsEvalDate, evaluationDate_, dates_,
                    rates_, linearCurve, idx, targetDate, t, linearRate,
                    cubicRate, out, err, exc, exitCode, failed >>

\* performAnalysis: the header and the separator are written, and the loop
\* over testPeriods starts.
TableHeader ==
    /\ pc = "table_header"
    /\ out' = out \o << HeaderLine, SeparatorLine >>
    /\ idx' = 1
    /\ pc' = "advance"
    /\ UNCHANGED << evalDate, settingsEvalDate, evaluationDate_, dates_,
                    rates_, linearCurve, cubicCurve, targetDate, t,
                    linearRate, cubicRate, err, exc, exitCode, failed >>

\* performAnalysis: targetDate = calendar_.advance(evaluationDate_, period).
AdvanceTarget ==
    /\ pc = "advance"
    /\ LET p == TestPeriods[idx]
           a == Advance(evaluationDate_, p.n, p.unit)
       IN  IF a.raised # NoExc
           THEN /\ Throw(a.raised)
                /\ UNCHANGED targetDate
           ELSE /\ targetDate' = a.value
                /\ pc' = "year_fraction"
                /\ UNCHANGED << exc, failed >>
    /\ UNCHANGED << evalDate, settingsEvalDate, evaluationDate_, dates_,
                    rates_, linearCurve, cubicCurve, idx, t, linearRate,
                    cubicRate, out, err, exitCode >>

\* performAnalysis: t = dayCounter_.yearFraction(evaluationDate_, targetDate).
YearFraction ==
    /\ pc = "year_fraction"
    /\ t' = DayCount(evaluationDate_, targetDate)
    /\ pc' = "query_linear"
    /\ UNCHANGED << evalDate, settingsEvalDate, evaluationDate_, dates_,
                    rates_, linearCurve, cubicCurve, idx, targetDate,
                    linearRate, cubicRate, out, err, exc, exitCode, failed >>

\* performAnalysis: linearRate = linearCurve->zeroRate(t, Continuous).
QueryLinear ==
    /\ pc = "query_linear"
    /\ LET r == ZeroRate(linearCurve, t)
       IN  IF r.raised # NoExc
           THEN /\ Throw(r.raised)
                /\ UNCHANGED linearRate
           ELSE /\ linearRate' = LinearValue(linearCurve, r.value)
                /\ pc' = "query_cubic"
                /\ UNCHANGED << exc, failed >>
    /\ UNCHANGED << evalDate, settingsEvalDate, evaluationDate_, dates_,
                    rates_, linearCurve, cubicCurve, idx, targetDate, t,
                    cubicRate, out, err, exitCode >>

\* performAnalysis: cubicRate = cubicCurve->zeroRate(t, Continuous).  The
\* rate is kept as the located evaluation that determines it (the segment
\* and the point); its number is CubicValue of it.
QueryCubic ==
    /\ pc = "query_cubic"
    /\ LET r == ZeroRate(cubicCurve, t)
       IN  IF r.raised # NoExc
           THEN /\ Throw(r.raised)
                /\ UNCHANGED cubicRate
           ELSE /\ cubicRate' = r.value
                /\ pc' = "print_row"
                /\ UNCHANGED << exc, failed >>
    /\ UNCHANGED << evalDate, settingsEvalDate, evaluationDate_, dates_,
                    rates_, linearCurve, cubicCurve, idx, targetDate, t,
                    linearRate, out, err, exitCode >>

\* performAnalysis: the row is written; the loop goes to the next period.
PrintRow ==
    /\ pc = "print_row"
    /\ out' = Append(out, RowLine(TestPeriods[idx], linearRate, cubicRate))
    /\ idx' = idx + 1
    /\ pc' = IF idx + 1 > Len(TestPeriods) THEN "table_footer" ELSE "advance"
    /\ UNCHANGED << evalDate, settingsEvalDate, evaluationDate_, dates_,
                    rates_, linearCurve, cubicCurve, targetDate, t,
                    linearRate, cubicRate, err, exc, exitCode, failed >>

\* A variant of the end of performAnalysis that writes no closing separator.
TableFooterSilent ==
    /\ pc = "table_footer"
    /\ pc' = "return"
    /\ UNCHANGED << evalDate, settingsEvalDate, evaluationDate_, dates_,
                    rates_, linearCurve, cubicCurve, idx, targetDate, t,
                    linearRate, cubicRate, out, err, exc, exitCode, failed >>

\* performAnalysis: the closing separator is written; runAnalysis returns.
TableFooter ==
    /\ pc = "table_footer"
    /\ out' = Append(out, SeparatorLine)
    /\ pc' = "return"
    /\ UNCHANGED << evalDate, settingsEvalDate, evaluationDate_, dates_,
                    rates_, linearCurve, cubicCurve, idx, targetDate, t,
                    linearRate, cubicRate, err, exc, exitCode, failed >>

\* main: return 0.
MainReturn ==
    /\ pc = "return"
    /\ exitCode' = 0
    /\ pc' = "exited"
    /\ UNCHANGED << evalDate, settingsEvalDate, evaluationDate_, dates_,
                    rates_, linearCurve, cubicCurve, idx, targetDate, t,
                    linearRate, cubicRate, out, err, exc, failed >>

\* A variant of the handlers of main that reports and returns 0.
MainCatchReturnsZero ==
    /\ pc = "catch"
    /\ err' = Append(err, ErrorLine(exc))
    /\ exc' = NoExc
    /\ exitCode' = 0
    /\ pc' = "exited"
    /\ UNCHANGED << evalDate, settingsEvalDate, evaluationDate_, dates_,
                    rates_, linearCurve, cubicCurve, idx, targetDate, t,
                    linearRate, cubicRate, out, failed >>

\* main: catch (const std::exception&) and catch (...): one line on
\* std::cerr, return 1.
MainCatch ==
    /\ pc = "catch"
    /\ err' = Append(err, ErrorLine(exc))
    /\ exc' = NoExc
    /\ exitCode' = 1
    /\ pc' = "exited"
    /\ UNCHANGED << evalDate, settingsEvalDate, evaluationDate_, dates_,
                    rates_, linearCurve, cubicCurve, idx, targetDate, t,
                    linearRate, cubicRate, out, failed >>

HarnessIdle ==
    /\ uPc = "idle"
    /\ uDates = << >>
    /\ uRates = << >>
    /\ uCurve = NoCurve
    /\ uT = 0
    /\ uRes = Ok(NoEval)



-----------------------------------------------------------------------------
(* The curve harness: a curve is built from any short sequence of dates and *)
(* rates, extrapolation is or is not enabled, and zeroRate is asked at the   *)
(* times around the knots.                                                   *)

MaxPoints == 3      \* the longest sequence of dates given to a curve
MaxSpan == 3        \* the dates are among MaxSpan + 1 consecutive days

HarnessDates ==
    { Serial(CompiledEvalY, CompiledEvalM, CompiledEvalD) + k : k \in 0..MaxSpan }

\* The rates of the first three quotes.
HarnessRates == { Quotes[i].rate : i \in 1..3 }

HarnessInit ==
    /\ uPc = "input"
    /\ \E n \in 0..MaxPoints :
          /\ uDates \in [1..n -> HarnessDates]
          /\ uRates \in [1..n -> HarnessRates]
    /\ uCurve = NoCurve
    /\ uT = 0
    /\ uRes = Ok(NoEval)

\* The constructor of InterpolatedZeroCurve<Linear> or <Cubic>.
HarnessBuild ==
    /\ uPc = "input"
    /\ \E method \in {"Linear", "Cubic"} :
          LET c == BuildCurve(uDates, uRates, method)
          IN  IF c.raised # NoExc
              THEN /\ uPc' = "rejected"
                   /\ uRes' = c
                   /\ UNCHANGED uCurve
              ELSE /\ uPc' = "built"
                   /\ uCurve' = c.value
                   /\ UNCHANGED uRes
    /\ UNCHANGED << uDates, uRates, uT >>

\* enableExtrapolation() on the curve.
HarnessEnable ==
    /\ uPc = "built"
    /\ ~ uCurve.extrapolate
    /\ uCurve' = EnableExtrapolation(uCurve)
    /\ UNCHANGED << uPc, uDates, uRates, uT, uRes >>

\* zeroRate(t, Continuous) on the curve, t a whole number of days from one
\* day before the first knot to two days after the last.
HarnessQuery ==
    /\ uPc \in {"built", "queried"}
    /\ \E tq \in (-1)..(MaxTime(uCurve) + 2) :
          /\ uT' = tq
          /\ uRes' = ZeroRate(uCurve, tq)
    /\ uPc' = "queried"
    /\ UNCHANGED << uDates, uRates, uCurve >>

ProgIdle ==
    /\ pc = "idle"
    /\ evalDate = NullDate
    /\ settingsEvalDate = NullDate
    /\ evaluationDate_ = NullDate
    /\ dates_ = << >>
    /\ rates_ = << >>
    /\ linearCurve = NoCurve
    /\ cubicCurve = NoCurve
    /\ idx = 0
    /\ targetDate = NullDate
    /\ t = 0
    /\ linearRate = NoValue
    /\ cubicRate = NoEval
    /\ out = << >>
    /\ err = << >>
    /\ exc = NoExc
    /\ exitCode = -1
    /\ failed = FALSE

-----------------------------------------------------------------------------
(* A behaviour is a run of the program or a run of the curve harness.        *)

Init ==
    \/ (ProgInit /\ HarnessIdle)
    \/ (ProgIdle /\ HarnessInit)

Next ==
    \/ (Main /\ UNCHANGED harnessVars)
    \/ (Constructor /\ UNCHANGED harnessVars)
    \/ (SetupMarketData /\ UNCHANGED harnessVars)
    \/ (RunBanner /\ UNCHANGED harnessVars)
    \/ (BuildLinear /\ UNCHANGED harnessVars)
    \/ (BuildCubic /\ UNCHANGED harnessVars)
    \/ (EnableLinear /\ UNCHANGED harnessVars)
    \/ (EnableCubic /\ UNCHANGED harnessVars)
    \/ (TableHeader /\ UNCHANGED harnessVars)
    \/ (AdvanceTarget /\ UNCHANGED harnessVars)
    \/ (YearFraction /\ UNCHANGED harnessVars)
    \/ (QueryLinear /\ UNCHANGED harnessVars)
    \/ (QueryCubic /\ UNCHANGED harnessVars)
    \/ (PrintRow /\ UNCHANGED harnessVars)
    \/ (TableFooter /\ UNCHANGED harnessVars)
    \/ (MainReturn /\ UNCHANGED harnessVars)
    \/ (MainCatch /\ UNCHANGED harnessVars)
    \/ (HarnessBuild /\ UNCHANGED progVars)
    \/ (HarnessEnable /\ UNCHANGED progVars)
    \/ (HarnessQuery /\ UNCHANGED progVars)

Spec == Init /\ [][Next]_vars

-----------------------------------------------------------------------------
(* Properties.                                                                *)

\* The kinds of the lines on std::cout, in the order written.
OutKinds == [i \in 1..Len(out) |-> out[i].kind]

\* The kinds of the lines of the complete comparison table.
TableKinds ==
    << "evaluation date", "separator", "header", "separator",
       "row", "row", "row", "separator" >>

IsPrefix(p, q) == Len(p) <= Len(q) /\ \A i \in 1..Len(p) : p[i] = q[i]

\* The rows written so far are those of the first test periods, in order.
RowsInOrder ==
    \A i \in 1..Len(out) :
        out[i].kind = "row" => out[i].period = TestPeriods[i - 4]

\* C1: a run of the program ends with exit code 0 and nothing on stderr when
\* no exception was raised, and with exit code 1 and exactly one diagnostic
\* line on stderr when one was raised anywhere in the constructor or in
\* runAnalysis; no exception is left in flight when main has returned.
C1_ExitOutcome ==
    pc # "idle" =>
        /\ exitCode \in {-1, 0, 1}
        /\ (pc = "exited") <=> (exitCode # -1)
        /\ pc # "exited" => err = << >>
        /\ (exc # NoExc) <=> (pc = "catch")
        /\ pc = "exited" =>
              /\ (exitCode = 0) <=> ~ failed
              /\ exitCode = 0 => err = << >>
              /\ exitCode = 1 => (Len(err) = 1 /\ err[1].kind = "error")

\* C1's case: a run in which the library threw has ended with exit code 1.
C1_Witness ==
    pc = "exited" /\ failed /\ exitCode = 1 /\ Len(err) = 1

\* C2 as specified: when the program has ended, std::cout holds the complete
\* table or nothing, and a run that ended with exit code 1 has written no
\* header line and no row.
C2_AllOrNothing ==
    pc = "exited" =>
        /\ (out = << >> \/ (OutKinds = TableKinds /\ RowsInOrder))
        /\ exitCode = 1 =>
              \A i \in 1..Len(out) : out[i].kind \notin {"header", "row"}

\* C2 amended: the table is written line by line.  What is on std::cout is
\* always a prefix of the complete table, rows in the order of the test
\* periods; a run that ends with exit code 0 has written all of it; a run
\* that ends with exit code 1 has written a proper prefix: nothing when the
\* constructor failed, and otherwise the lines before the failing step.
C2_TablePrefix ==
    pc # "idle" =>
        /\ IsPrefix(OutKinds, TableKinds)
        /\ RowsInOrder
        /\ exitCode = 0 => OutKinds = TableKinds
        /\ exitCode = 1 => Len(out) < Len(TableKinds)
        /\ (exitCode = 1 /\ Len(dates_) < Len(Quotes)) => out = << >>
        /\ (exitCode = 1 /\ Len(dates_) = Len(Quotes)) => Len(out) >= 2

\* C2's case: a run failed at the third query after two rows were written.
C2_Witness ==
    /\ pc = "exited" /\ exitCode = 1
    /\ OutKinds = << "evaluation date", "separator", "header", "separator",
                     "row", "row" >>

\* C3 as specified: the knot times of both curves are the year fractions from
\* the evaluation date to the quotes' maturity dates (so the first knot is
\* not at time 0), the origin the query times are measured from.
C3_KnotsFromEvaluationDate ==
    /\ linearCurve.method = "Linear" =>
          \A i \in 1..Len(dates_) :
              linearCurve.times[i] = DayCount(evaluationDate_, dates_[i])
    /\ cubicCurve.method = "Cubic" =>
          \A i \in 1..Len(dates_) :
              cubicCurve.times[i] = DayCount(evaluationDate_, dates_[i])
    /\ pc = "query_linear" => t = DayCount(evaluationDate_, targetDate)

\* C9 as specified: the process-wide evaluation date is never changed.
C9_GlobalUntouched == settingsEvalDate = NullDate

\* C9 amended: the constructor sets the process-wide evaluation date to its
\* argument D and that is the only change to it; once the constructor has
\* returned, no step of runAnalysis changes the stored dates, the stored
\* rates, the stored evaluation date or the process-wide evaluation date.
C9_StoreFrozen ==
    /\ [](pc \in {"idle", "main", "ctor"} => settingsEvalDate = NullDate)
    /\ [](pc \notin {"idle", "main", "ctor"} =>
              (settingsEvalDate = evalDate /\ evaluationDate_ = evalDate))
    /\ [][pc \notin {"idle", "main", "ctor", "setup"} =>
              UNCHANGED << dates_, rates_, evaluationDate_, settingsEvalDate >>]_vars

\* C9's case: the table is complete, written from the store built for D.
C9_Witness ==
    /\ pc = "exited" /\ exitCode = 0
    /\ settingsEvalDate = evalDate
    /\ Len(dates_) = Len(Quotes)

\* The harness has asked for a rate, and has been given one.
Queried == uPc = "queried"
Answered == Queried /\ uRes.raised = NoExc

\* The number of a located evaluation on a curve of either method.
Value(curve, ev) ==
    IF curve.method = "Linear" THEN LinearValue(curve, ev)
    ELSE CubicValue(curve, ev)

\* whole + num/den = r, r < whole + num/den, whole + num/den < r.
RateIs(v, r) == v.num = (r - v.whole) * v.den
RateAbove(v, r) == v.num > (r - v.whole) * v.den
RateBelow(v, r) == v.num < (r - v.whole) * v.den

\* whole + num/den = r + dr * dt / dx, for dx > 0.
RateIsOnLine(v, r, dr, dt, dx) ==
    (v.num + (v.whole - r) * v.den) * dx = dr * dt * v.den

StrictlyIncreasing(seq) == \A i \in 2..Len(seq) : seq[i-1] < seq[i]

\* The row of the table for the i-th test period, once written.
RowWritten(i) == Len(out) >= 4 + i
Row(i) == out[4 + i]

\* C4 as specified: for a curve of either method, zeroRate at a knot time
\* returns that knot's rate.  (The number of the Cubic curve at time 0,
\* which the library evaluates at dt, is left out: exact arithmetic there
\* needs more than the model's integers.)
C4_KnotExact ==
    Answered =>
        \A i \in 1..Len(uCurve.times) :
            (uCurve.times[i] = uT /\ (uCurve.method = "Linear" \/ uT > 0))
                => RateIs(Value(uCurve, uRes.value), uCurve.data[i])

\* C4 amended: for every curve the constructor accepts and for both methods,
\* zeroRate at a knot time t_i > 0 returns r_i (in exact arithmetic).  The
\* first knot is at time 0 on every curve, and zeroRate(0) is evaluated on
\* the first segment at dt = 0.0001 years instead.
C4_KnotExactAfterZero ==
    uPc \in {"built", "queried"} =>
        /\ uCurve.times[1] = 0
        /\ Answered =>
              /\ \A i \in 1..Len(uCurve.times) :
                    (uCurve.times[i] = uT /\ uT > 0)
                        => RateIs(Value(uCurve, uRes.value), uCurve.data[i])
              /\ uT = 0 =>
                    uRes.value = [mode |-> "interp", seg |-> 1,
                                  xn |-> DtNum, xd |-> DtDen]

\* C4's case: a Cubic curve of three knots or more was asked at its last knot.
C4_Witness ==
    /\ Answered
    /\ uCurve.method = "Cubic"
    /\ Len(uCurve.times) >= 3
    /\ uT = MaxTime(uCurve)
    /\ uCurve.data[Len(uCurve.data)] # uCurve.data[Len(uCurve.data) - 1]

\* The rate of the Linear curve at uT is on the line through the knots of
\* every bracket [t_i, t_i+1] that holds uT, and strictly between their
\* rates when uT is strictly inside and the rates increase.
OnBracketLines ==
    \A i \in 1..(Len(uCurve.times) - 1) :
        LET v == LinearValue(uCurve, uRes.value)
        IN  (uCurve.times[i] <= uT /\ uT <= uCurve.times[i+1]) =>
                /\ RateIsOnLine(v, uCurve.data[i],
                                uCurve.data[i+1] - uCurve.data[i],
                                uT - uCurve.times[i],
                                uCurve.times[i+1] - uCurve.times[i])
                /\ ( /\ uCurve.times[i] < uT /\ uT < uCurve.times[i+1]
                     /\ uCurve.data[i] < uCurve.data[i+1] )
                     => ( /\ RateAbove(v, uCurve.data[i])
                          /\ RateBelow(v, uCurve.data[i+1]) )

\* The 7Y row of the program's table holds a Linear rate strictly between
\* 0.0400 and 0.0425.
SevenYearRowBetween ==
    RowWritten(2) =>
        /\ Row(2).period = [n |-> 7, unit |-> "Years"]
        /\ RateAbove(Row(2).linear, 400)
        /\ RateBelow(Row(2).linear, 425)

\* C5 as specified: for the Linear curve and every t inside the knot range,
\* zeroRate(t) is r_i + (r_i+1 - r_i)*(t - t_i)/(t_i+1 - t_i) on the bracket
\* holding t, hence strictly between increasing rates; the 7Y rate of the
\* program is strictly between 0.0400 and 0.0425.
C5_LinearFormula ==
    /\ (Answered /\ uCurve.method = "Linear"
            /\ 0 <= uT /\ uT <= MaxTime(uCurve)) => OnBracketLines
    /\ SevenYearRowBetween

\* C5 amended: the same for every t inside the knot range other than t = 0
\* (where zeroRate evaluates the curve at t = 0.0001).
C5_LinearFormulaAfterZero ==
    /\ (Answered /\ uCurve.method = "Linear"
            /\ 0 < uT /\ uT <= MaxTime(uCurve)) => OnBracketLines
    /\ SevenYearRowBetween

\* C5's case: a Linear curve was asked strictly between two knots with
\* increasing rates.
C5_Witness ==
    /\ Answered
    /\ uCurve.method = "Linear"
    /\ \E i \in 1..(Len(uCurve.times) - 1) :
          /\ uCurve.times[i] < uT /\ uT < uCurve.times[i+1]
          /\ uCurve.data[i] < uCurve.data[i+1]

\* C6 as specified: with extrapolation enabled, a Linear query outside the
\* knot range continues the slope of the nearest segment: r_0 + s_first*(t -
\* t_0) below the first knot, r_last + s_last*(t - t_last) above the last;
\* in the program the 3M query is outside the range with a rate below
\* 0.0300 and the 40Y query is outside it with a rate of at least 0.0450.
C6_SlopeExtension ==
    /\ (Queried /\ uCurve.method = "Linear" /\ uCurve.extrapolate) =>
          LET n == Len(uCurve.times)
          IN  /\ uT > uCurve.times[n] =>
                    /\ uRes.raised = NoExc
                    /\ RateIsOnLine(LinearValue(uCurve, uRes.value),
                                    uCurve.data[n],
                                    uCurve.data[n] - uCurve.data[n-1],
                                    uT - uCurve.times[n],
                                    uCurve.times[n] - uCurve.times[n-1])
              /\ uT < uCurve.times[1] =>
                    /\ uRes.raised = NoExc
                    /\ RateIsOnLine(LinearValue(uCurve, uRes.value),
                                    uCurve.data[1],
                                    uCurve.data[2] - uCurve.data[1],
                                    uT - uCurve.times[1],
                                    uCurve.times[2] - uCurve.times[1])
    /\ RowWritten(1) => RateBelow(Row(1).linear, 300)
    /\ RowWritten(3) => ~ RateBelow(Row(3).linear, 450)

\* C7 as specified: zeroRate at a time outside the knot range fails exactly
\* when the curve does not extrapolate, and never when it does; in the
\* program both curves extrapolate when they are queried and no query fails.
C7_ExtrapolationError ==
    /\ Queried =>
          ( uRes.raised # NoExc <=>
                ( /\ ~ uCurve.extrapolate
                  /\ (uT < uCurve.times[1] \/ uT > MaxTime(uCurve)) ) )
    /\ pc \in {"query_linear", "query_cubic"} =>
          (linearCurve.extrapolate /\ cubicCurve.extrapolate)
    /\ exc \notin {"time past max time", "negative time given"}

\* C7 amended: zeroRate at a time past the last knot fails ("time past max
\* time") exactly when the curve does not extrapolate; zeroRate at a time
\* before the first knot, which is a negative time, fails whether or not
\* the curve extrapolates; no other query fails.  In the program both
\* curves extrapolate when they are queried, and no query fails.
C7_RangeErrors ==
    /\ Queried =>
          /\ uRes.raised # NoExc <=>
                ( \/ uT < uCurve.times[1]
                  \/ (~ uCurve.extrapolate /\ uT > MaxTime(uCurve)) )
          /\ uRes.raised # NoExc =>
                uRes.raised = IF uT < 0 THEN "negative time given"
                              ELSE "time past max time"
    /\ pc \in {"query_linear", "query_cubic"} =>
          (linearCurve.extrapolate /\ cubicCurve.extrapolate)
    /\ exc \notin {"time past max time", "negative time given"}

\* C7's case: the program has asked both curves for the 40Y rate, which is
\* past their last knot, and has written the row.
C7_Witness ==
    /\ RowWritten(3)
    /\ Row(3).cubic.mode = "flatfwd"
    /\ t > MaxTime(linearCurve)

\* C8 as specified: the constructor rejects fewer than 2 points (Linear), fewer
\* than 3 points (Cubic) and dates that are not strictly increasing, and
\* accepts everything else, the six quotes of the program among it.
C8_BuildRejects ==
    /\ uPc = "rejected" =>
          (Len(uDates) < 3 \/ ~ StrictlyIncreasing(uDates))
    /\ uPc \in {"built", "queried"} =>
          /\ StrictlyIncreasing(uDates)
          /\ Len(uDates) >= (IF uCurve.method = "Cubic" THEN 3 ELSE 2)
    /\ exc \notin {"vector::at out of range", "not enough input dates given",
                   "dates/data count mismatch", "invalid date"}

\* C8 amended: the constructor rejects fewer than 2 points, for either
\* method, and dates that are not strictly increasing, and accepts every
\* strictly increasing sequence of 2 dates or more (a Cubic curve of 2
\* points too), the six quotes of the program among them.
C8_BuildRejectsTwoPoints ==
    /\ uPc = "rejected" =>
          /\ (Len(uDates) < 2 \/ ~ StrictlyIncreasing(uDates))
          /\ uRes.raised # NoExc
    /\ uPc \in {"built", "queried"} =>
          /\ StrictlyIncreasing(uDates)
          /\ Len(uDates) >= 2
          /\ uCurve.dates = uDates
          /\ uCurve.data = uRates
    /\ exc \notin {"vector::at out of range", "not enough input dates given",
                   "dates/data count mismatch", "invalid date"}
    /\ pc \in {"enable_linear", "enable_cubic", "table_header"} =>
          (linearCurve.dates = dates_ /\ cubicCurve.dates = dates_
              /\ Len(dates_) = Len(Quotes))

\* C8's case: a Cubic curve was built from two points.
C8_Witness ==
    /\ uPc = "built"
    /\ uCurve.method = "Cubic"
    /\ Len(uDates) = 2

\* C10 as specified: the Cubic curve is a natural cubic spline: its first and
\* second derivatives are continuous at every interior knot and its second
\* derivative is zero at the first and at the last knot.
C10_NaturalSpline ==
    (uPc = "built" /\ uCurve.method = "Cubic" /\ Len(uCurve.times) >= 3) =>
        LET n == Len(uCurve.times)
        IN  /\ SecondDerivative(uCurve, 1, RInt(0)) = RInt(0)
            /\ SecondDerivative(uCurve, n-1, RInt(SegDx(uCurve, n-1))) = RInt(0)
            /\ \A i \in 2..(n-1) :
                  /\ CubicDerivative(uCurve, i-1, RInt(SegDx(uCurve, i-1)))
                        = CubicDerivative(uCurve, i, RInt(0))
                  /\ SecondDerivative(uCurve, i-1, RInt(SegDx(uCurve, i-1)))
                        = SecondDerivative(uCurve, i, RInt(0))

=============================================================================
